---- MODULE Spec2Model ----
(***************************************************************************)
(* Model of the ippon release command: registryCommand fans one            *)
(* build-publish task per service out over an errgroup with a limit,       *)
(* collects the produced Image records in a buffered channel and, when a   *)
(* namespace is given, merges them into .ippon/<namespace>.yaml            *)
(* (updateK8sDeployment).                                                  *)
(*                                                                         *)
(* src/repo.go holds two orderings of the command body: the one at lines   *)
(* 172-253 logs in to the registry before any task is submitted            *)
(* ("authFirst"), the one at lines 780-849 submits the Go services first   *)
(* and logs in afterwards ("goFirst").                                     *)
(***************************************************************************)
EXTENDS Integers, Sequences, FiniteSets, TLC

\* ------------------------------------------------------------------ bounds
MaxGo == 2
MaxDocker == 2
MaxTargets == 2
MaxN == 2
MaxUnits == 3
MaxTasks == 3
MaxLiveUnits == 2
MaxFileLen == 1
MaxRecs == 3
MaxManifest == 2
MaxTags == 2
MaxLogLines == 3
MaxRepos == 3

\* --------------------------------------------------------------- constants
NoErr == [kind |-> "nil"]
NoFile == [kind |-> "absent", images |-> <<>>]
Corrupt == [kind |-> "unparseable", images |-> <<>>]
\* os.ReadFile fails with an error other than "does not exist".
Unreadable == [kind |-> "unreadable", images |-> <<>>]
\* The file after os.WriteFile opened it with O_TRUNC and before the document
\* is written in full.
Truncated == [kind |-> "truncated", images |-> <<>>]
Yaml(content) == [kind |-> "yaml", images |-> content]
\* The file system has not been looked at yet: what os.ReadFile finds is an
\* input of the run, drawn when getKustomiztion reads it.
Unread == [kind |-> "unread", images |-> <<>>]
FixedDomain == "registry.lema.ai"
Digests == {"sha256:111"}
Variants == {"authFirst", "goFirst"}
Namespaces == {"", "dev"}

VARIABLES
    variant,        \* which ordering of the command body runs
    numGo,          \* len(config.ServicesConfig.GoServices)
    dockerServices, \* per Docker service: len(service.TargetsOrder)
    maxGoRoutines,  \* --max-go-routines
    namespace,      \* --namespace
    mpc,            \* position of registryCommand's goroutine
    next,           \* index of the next service to hand to g.Go
    authDone,       \* authDockerEcr has returned nil
    tpc,            \* per task: "idle", "run", "fin" (f returned, g.done ran)
    tunit,          \* per task: index of the unit (target) it is working on
    tphase,         \* per task: "build", "digest", "publish", "send"
    tdigest,        \* per task: digest obtained for the current unit
    sem,            \* tokens held in errgroup's semaphore channel
    wg,             \* errgroup's WaitGroup counter
    gerr,           \* errgroup's err, set under errOnce
    imagesChan,     \* buffered channel content: pointers to Image
    chanClosed,     \* close(imagesChan) happened
    heap,           \* Image objects by pointer
    builtImages,    \* updateK8sDeployment: drained pointers
    currentImages,  \* updateK8sDeployment: manifest entries (pointers)
    dirExists,      \* the directory .ippon exists (known once the file was read)
    file,           \* content of .ippon/<namespace>.yaml (known once it was read)
    retErr,         \* value returned by registryCommand
    firstFail,      \* history: the first task whose f returned an error, 0 if none
    sent,           \* history: units whose record was sent, in send order
    fileTouched,    \* history: the manifest file was read or written
    authCalls,      \* history: number of calls of authDockerEcr
    rcM,            \* manifest store under test: loaded manifest
    rcR,            \* manifest store under test: records of the run
    rcR2,           \* manifest store under test: the same records in another order
    rcOnce,         \* reconcile(M, R)
    rcTwice,        \* reconcile(reconcile(M, R), R)
    rcOther,        \* reconcile(M, R2)
    rcAfter,        \* the record objects of R as they are after reconcile(M, R)
    rcPc,           \* position of the manifest store under test
    tgVersion,      \* Go publish under test: which buildAndPublish body runs
    tgTags,         \* Go publish under test: service.GetTags()
    tgDigest,       \* Go publish under test: r.Digest()
    tgPushed,       \* Go publish under test: the tags given to publish.WithTags
    tgPc,           \* position of the Go publish under test
    lgVersion,      \* logging under test: which main runs
    lgVerbose,      \* logging under test: the verbose flag
    lgSink,         \* logging under test: where the log package writes
    lgBuffer,       \* logging under test: content of outputBuffer
    lgLines,        \* history: every line handed to log.Printf
    lgShown,        \* logging under test: what has reached the terminal
    lgPc,           \* position of main
    crVersion,      \* create-missing-repos under test: which body runs
    crNamespace,    \* create-missing-repos under test: --namespace
    crNumGo,        \* create-missing-repos under test: len(GoServices)
    crTargets,      \* create-missing-repos under test: len(TargetsOrder) per Docker service
    crIdx,          \* index into serviceNames of the loop
    crCalls,        \* history: the registry calls made, in order
    crErr,          \* value returned by createMissingReposCommand
    crPc,           \* position of createMissingReposCommand
    dkVersion,      \* Docker unit under test: which buildAndPublishDockerService runs
    dkNamespace,    \* Docker unit under test: --namespace
    dkTags,         \* Docker unit under test: service.GetTags()
    dkKey,          \* history: the references handed to getDockerImageDigest
    dkImage,        \* Docker unit under test: the record returned
    dkErr,          \* Docker unit under test: the error returned
    dkPc,           \* position of buildAndPublishDockerService
    prVersion,      \* pre-run hook under test: which buildRegistryCommand runs
    prEnv,          \* pre-run hook under test: the environment variables that are set
    prServices,     \* pre-run hook under test: len(servicesConfig.Services)
    prPending,      \* calls of registry.Init the hook has still to make
    prReg,          \* the fields of the Okteto registry that have been assigned
    prInits,        \* history: what each call of registry.Init returned
    prUrls,         \* history: what each call of registry.URL() was built from
    prDispatched,   \* number of services handed to g.Go by release
    prErr,          \* the error cobra returns from Execute
    prPc            \* position of the command's execution

pipeVars == <<variant, numGo, dockerServices, maxGoRoutines, namespace, mpc,
              next, authDone, tpc, tunit, tphase, tdigest, sem, wg, gerr,
              imagesChan, chanClosed, heap, builtImages, currentImages,
              dirExists, file, retErr, firstFail, sent, fileTouched,
              authCalls>>
rcVars == <<rcM, rcR, rcR2, rcOnce, rcTwice, rcOther, rcAfter, rcPc>>
tgVars == <<tgVersion, tgTags, tgDigest, tgPushed, tgPc>>
lgVars == <<lgVersion, lgVerbose, lgSink, lgBuffer, lgLines, lgShown, lgPc>>
crVars == <<crVersion, crNamespace, crNumGo, crTargets, crIdx, crCalls, crErr, crPc>>
dkVars == <<dkVersion, dkNamespace, dkTags, dkKey, dkImage, dkErr, dkPc>>
prVars == <<prVersion, prEnv, prServices, prPending, prReg, prInits, prUrls,
            prDispatched, prErr, prPc>>
\* The variables of the parts that are checked on their own.
sideVars == <<rcVars, tgVars, lgVars, crVars, dkVars, prVars>>
vars == <<pipeVars, sideVars>>

\* ------------------------------------------------------------ configuration
RECURSIVE SumSeq(_)
SumSeq(s) == IF s = <<>> THEN 0 ELSE Head(s) + SumSeq(Tail(s))

NumDocker == Len(dockerServices)
NumTasks == NumDocker + numGo
Tasks == 1..NumTasks

\* Docker services are submitted first in authFirst, last in goFirst.
IsDocker(t) == IF variant = "authFirst" THEN t <= NumDocker ELSE t > numGo
DockerIdx(t) == IF variant = "authFirst" THEN t ELSE t - numGo
GoIdx(t) == IF variant = "authFirst" THEN t - NumDocker ELSE t

\* Number of units (records to produce) of task t.
NumUnits(t) == IF IsDocker(t) THEN dockerServices[DockerIdx(t)] ELSE 1

\* service.Name / target.Name of unit j of task t.
UnitName(t, j) ==
    IF IsDocker(t) THEN <<"docker", DockerIdx(t), j>> ELSE <<"go", GoIdx(t)>>

Units == {<<t, j>> \in Tasks \X (1..(MaxTargets + 1)) : j <= NumUnits(t)}

\* lenDockerServices + len(GoServices): the channel's capacity.
ChanCapTargets(nGo, dockerSvcs) == nGo + Len(dockerSvcs)
ChanCap(nGo, dockerSvcs) == nGo + SumSeq(dockerSvcs)

TotalUnits == numGo + SumSeq(dockerServices)

\* The service index before which authDockerEcr is called.
AuthPosLast(v, nGo, nDocker) == nGo + nDocker + 1
AuthPos(v, nGo, nDocker) == IF v = "authFirst" THEN 1 ELSE nGo + 1

\* ------------------------------------------------------------------ records
OldNameOf(name) == <<FixedDomain, name>>
\* ns = "" stands for the unqualified repository.
RepoName(ns, name) == <<"repo", ns, name>>
NewNameOf(ns, name, digest) == <<RepoName(ns, name), digest>>
MkImage(ns, name, digest) ==
    [OldName |-> OldNameOf(name), NewName |-> NewNameOf(ns, name, digest)]

\* Pointer of the Image a unit's task allocates.
RECURSIVE UnitsBefore(_)
UnitsBefore(t) == IF t <= 1 THEN 0 ELSE NumUnits(t - 1) + UnitsBefore(t - 1)
UnitPtr(t, j) == UnitsBefore(t) + j

Deref(h, ptrs) == [i \in 1..Len(ptrs) |-> h[ptrs[i]]]

\* --------------------------------------------------------------- errgroup
\* g.Go blocks on the semaphore channel unless SetLimit was given n < 0.
CanAcquireOffByOne(s, n) == n < 0 \/ s <= n
CanAcquireWhenIdle(s, n) == n < 0 \/ (n > 0 /\ s = 0)
CanAcquire(s, n) == n < 0 \/ s < n

\* errOnce.Do: only the first error is kept.
ErrOnceLast(cur, e) == e
ErrOnce(cur, e) == IF cur = NoErr THEN e ELSE cur

\* wg.Wait returns when the counter is zero.
WaitReadyShortCircuit(w, e) == w = 0 \/ e # NoErr
WaitReadyEarly(w, e) == w <= 1
WaitReady(w, e) == w = 0

\* The error value f returns: the chain of errors.Wrap messages (task is the
\* identity of the returning goroutine, not part of the message).
TaskErr(t, msg) == [kind |-> "task", task |-> t, msg |-> msg]

\* ---------------------------------------------------------------- manifest
\* lo.FindIndexOf over currentImages: first index whose OldName matches, 0 if none.
FindIndexOfLast(h, cur, key) == Len(cur)
FindIndexOfNone(h, cur, key) == 0
FindIndexOf(h, cur, key) ==
    IF \E i \in 1..Len(cur) : h[cur[i]].OldName = key
    THEN CHOOSE i \in 1..Len(cur) :
            /\ h[cur[i]].OldName = key
            /\ \A k \in 1..(i - 1) : h[cur[k]].OldName # key
    ELSE 0

\* One iteration of the loop over builtImages.
ReconcileOneAppend(h, cur, img) == [heap |-> h, cur |-> Append(cur, img)]
ReconcileOneKeep(h, cur, img) ==
    IF \E i \in 1..Len(cur) : h[cur[i]].OldName = h[img].OldName
    THEN [heap |-> h, cur |-> cur]
    ELSE [heap |-> h, cur |-> Append(cur, img)]
ReconcileOneMoveToEnd(h, cur, img) ==
    [heap |-> h,
     cur |-> Append(SelectSeq(cur, LAMBDA p : h[p].OldName # h[img].OldName), img)]
ReconcileOne(h, cur, img) ==
    LET idx == FindIndexOf(h, cur, h[img].OldName)
    IN IF idx = 0
       THEN [heap |-> h, cur |-> Append(cur, img)]
       ELSE [heap |-> [h EXCEPT ![cur[idx]].NewName = h[img].NewName], cur |-> cur]

RECURSIVE ReconcileFrom(_, _, _, _)
ReconcileFrom(h, cur, built, i) ==
    IF i > Len(built)
    THEN [heap |-> h, cur |-> cur]
    ELSE LET r == ReconcileOne(h, cur, built[i])
         IN ReconcileFrom(r.heap, r.cur, built, i + 1)

\* yaml.Unmarshal allocates one Image per entry of the document.
LoadPtrsNone(base, content) == <<>>
LoadPtrs(base, content) == [i \in 1..Len(content) |-> base + i]
LoadHeap(h, base, content) ==
    [p \in DOMAIN h \cup {base + i : i \in 1..Len(content)} |->
        IF p \in DOMAIN h THEN h[p] ELSE content[p - base]]


\* ----------------------------------------------------------- initial state
DockerConfigs ==
    UNION {[1..n -> 0..MaxTargets] : n \in 0..MaxDocker}

\* Entries a previous run may have left in the manifest file.
FileEntries ==
    {[OldName |-> OldNameOf(n), NewName |-> NewNameOf("dev", n, "sha256:000")] :
        n \in {<<"go", 1>>, <<"legacy">>}}

DistinctKeys(content) ==
    \A i, k \in 1..Len(content) : i # k => content[i].OldName # content[k].OldName

InitialFiles ==
    {NoFile, Corrupt, Unreadable} \cup
    {Yaml(c) : c \in {d \in UNION {[1..n -> FileEntries] : n \in 0..MaxFileLen} :
                            DistinctKeys(d)}}

RcIdle ==
    /\ rcM = <<>> /\ rcR = <<>> /\ rcR2 = <<>>
    /\ rcOnce = <<>> /\ rcTwice = <<>> /\ rcOther = <<>> /\ rcAfter = <<>>
    /\ rcPc = "off"

TgIdle ==
    /\ tgVersion = "off" /\ tgTags = <<>> /\ tgDigest = <<>>
    /\ tgPushed = <<>> /\ tgPc = "off"

LgIdle ==
    /\ lgVersion = "off" /\ lgVerbose = FALSE /\ lgSink = "stderr"
    /\ lgBuffer = <<>> /\ lgLines = <<>> /\ lgShown = <<>> /\ lgPc = "off"

CrIdle ==
    /\ crVersion = "off" /\ crNamespace = "" /\ crNumGo = 0 /\ crTargets = <<>>
    /\ crIdx = 1 /\ crCalls = <<>> /\ crErr = NoErr /\ crPc = "off"

DkIdle ==
    /\ dkVersion = "off" /\ dkNamespace = "" /\ dkTags = <<>> /\ dkKey = <<>>
    /\ dkImage = <<>> /\ dkErr = NoErr /\ dkPc = "off"

PrIdle ==
    /\ prVersion = "off" /\ prEnv = {} /\ prServices = 0 /\ prPending = 0
    /\ prReg = {} /\ prInits = <<>> /\ prUrls = <<>> /\ prDispatched = 0
    /\ prErr = NoErr /\ prPc = "off"

InitPipe(v) ==
    /\ variant = v
    /\ numGo \in 0..MaxGo
    /\ dockerServices \in DockerConfigs
    /\ numGo + SumSeq(dockerServices) <= MaxUnits
    /\ numGo + Len(dockerServices) <= MaxTasks
    /\ maxGoRoutines \in 0..MaxN
    /\ namespace \in Namespaces
    /\ mpc = "loop"
    /\ next = 1
    /\ authDone = FALSE
    /\ tpc = [t \in 1..(numGo + Len(dockerServices)) |-> "idle"]
    /\ tunit = [t \in 1..(numGo + Len(dockerServices)) |-> 1]
    /\ tphase = [t \in 1..(numGo + Len(dockerServices)) |-> "build"]
    /\ tdigest = [t \in 1..(numGo + Len(dockerServices)) |-> ""]
    /\ sem = 0
    /\ wg = 0
    /\ gerr = NoErr
    /\ imagesChan = <<>>
    /\ chanClosed = FALSE
    /\ heap = << >>
    /\ builtImages = <<>>
    /\ currentImages = <<>>
    /\ file = Unread
    /\ dirExists = TRUE
    /\ retErr = NoErr
    /\ firstFail = 0
    /\ sent = <<>>
    /\ fileTouched = FALSE
    /\ authCalls = 0
    /\ RcIdle
    /\ TgIdle
    /\ LgIdle
    /\ CrIdle
    /\ DkIdle
    /\ PrIdle

Init == InitPipe("authFirst")
InitGoFirst == InitPipe("goFirst")

\* ------------------------------------------------------- registryCommand
Return(e) ==
    /\ mpc' = "returned"
    /\ retErr' = e

\* authDockerEcr, called once by the command's own goroutine.
Auth ==
    /\ mpc = "loop"
    /\ ~authDone
    /\ next = AuthPos(variant, numGo, NumDocker)
    /\ \/ /\ authDone' = TRUE
          /\ UNCHANGED <<mpc, retErr>>
       \/ /\ Return([kind |-> "fatal", msg |-> <<"auth docker ecr">>])
          /\ UNCHANGED authDone
    /\ UNCHANGED <<variant, numGo, dockerServices, maxGoRoutines, namespace,
                   next, tpc, tunit, tphase, tdigest, sem, wg, gerr,
                   imagesChan, chanClosed, heap, builtImages, currentImages,
                   dirExists, file, firstFail, sent, fileTouched>>
    /\ authCalls' = authCalls + 1
    /\ UNCHANGED sideVars

\* The range loops over DockerServices and GoServices are over once every
\* service has been handed to g.Go.
RangeDoneEarly(n) == n > 1
RangeDone(n) == n > NumTasks

\* g.Go(f) for the next service: takes a semaphore token, wg.Add(1), go f().
Submit ==
    /\ mpc = "loop"
    /\ ~RangeDone(next)
    /\ next = AuthPos(variant, numGo, NumDocker) => authDone
    /\ CanAcquire(sem, maxGoRoutines)
    /\ sem' = sem + 1
    /\ wg' = wg + 1
    /\ tpc' = [tpc EXCEPT ![next] = "run"]
    /\ tphase' = [tphase EXCEPT ![next] = IF NumUnits(next) = 0 THEN "return" ELSE "build"]
    /\ next' = next + 1
    /\ UNCHANGED <<variant, numGo, dockerServices, maxGoRoutines, namespace,
                   mpc, authDone, tunit, tdigest, gerr,
                   imagesChan, chanClosed, heap, builtImages, currentImages,
                   dirExists, file, retErr, firstFail, sent, fileTouched>>
    /\ UNCHANGED <<authCalls, sideVars>>

\* What g.Wait() returns once wg.Wait() is over: g.err.
WaitErrNil(e) == NoErr
WaitErr(e) == e

\* g.Wait(): wg.Wait(), then the first recorded error, wrapped.
Wait ==
    /\ mpc = "loop"
    /\ RangeDone(next)
    /\ next = AuthPos(variant, numGo, NumDocker) => authDone
    /\ WaitReady(wg, gerr)
    /\ IF WaitErr(gerr) # NoErr
       THEN Return([gerr EXCEPT !.msg = <<"fatal error while building service">> \o @])
       ELSE /\ mpc' = "close"
            /\ UNCHANGED retErr
    /\ UNCHANGED <<variant, numGo, dockerServices, maxGoRoutines, namespace,
                   next, authDone, tpc, tunit, tphase, tdigest, sem, wg, gerr,
                   imagesChan, chanClosed, heap, builtImages, currentImages,
                   dirExists, file, firstFail, sent, fileTouched>>
    /\ UNCHANGED <<authCalls, sideVars>>

\* if namespace == "" { return nil }: updateK8sDeployment is not called.
NoNamespaceNever(ns) == FALSE
NoNamespace(ns) == ns = ""

\* close(imagesChan); with an empty namespace the command returns nil here.
Close ==
    /\ mpc = "close"
    /\ chanClosed' = TRUE
    /\ IF NoNamespace(namespace)
       THEN Return(NoErr)
       ELSE /\ mpc' = "drain"
            /\ UNCHANGED retErr
    /\ UNCHANGED <<variant, numGo, dockerServices, maxGoRoutines, namespace,
                   next, authDone, tpc, tunit, tphase, tdigest, sem, wg, gerr,
                   imagesChan, heap, builtImages, currentImages,
                   dirExists, file, firstFail, sent, fileTouched>>
    /\ UNCHANGED <<authCalls, sideVars>>


\* --------------------------------------------------- the tasks handed to g.Go
PipeFrame ==
    UNCHANGED <<variant, numGo, dockerServices, maxGoRoutines, namespace>>

WrapOuter(t) ==
    IF IsDocker(t) THEN "build and push docker service" ELSE "build and push go service"

BuildMsgs(t) ==
    IF IsDocker(t) THEN {"build docker image"} ELSE {"build go image", "build image"}
DigestMsgs(t) ==
    IF IsDocker(t)
    THEN {<<"get docker image digest", "get docker image digest">>,
          <<"get docker image digest", "unmarshal docker manifest">>}
    ELSE {<<"get image digest">>}
PublishMsgs == {"authenticate to image repo", "publish image"}

\* f has returned: g.done() gives the token back and calls wg.Done().
TaskExit(t) ==
    /\ tpc' = [tpc EXCEPT ![t] = "fin"]
    /\ sem' = sem - 1
    /\ wg' = wg - 1

\* f returns err: the wrapper records it under errOnce, then g.done().
Fail(t, msg) ==
    /\ TaskExit(t)
    /\ gerr' = ErrOnce(gerr, TaskErr(t, <<WrapOuter(t)>> \o msg))
    /\ firstFail' = IF firstFail = 0 THEN t ELSE firstFail

\* buildDockerImage / build.NewGo + b.Build
Build(t) ==
    /\ tpc[t] = "run"
    /\ tphase[t] = "build"
    /\ \/ /\ tphase' = [tphase EXCEPT ![t] = "digest"]
          /\ UNCHANGED <<tpc, sem, wg, gerr, firstFail>>
       \/ /\ \E m \in BuildMsgs(t) : Fail(t, <<m>>)
          /\ UNCHANGED tphase
    /\ PipeFrame
    /\ UNCHANGED <<mpc, next, authDone, tunit, tdigest,
                   imagesChan, chanClosed, heap, builtImages, currentImages,
                   dirExists, file, retErr, sent, fileTouched>>
    /\ UNCHANGED <<authCalls, sideVars>>

\* The digests getDockerImageDigest can return with a nil error: the first
\* descriptor's digest, or "" for an empty descriptor list (errors.Wrap of a
\* nil error is nil).
DockerDigestResults == Digests \cup {""}

\* getDockerImageDigest / r.Digest()
Digest(t) ==
    /\ tpc[t] = "run"
    /\ tphase[t] = "digest"
    /\ \/ /\ \E d \in (IF IsDocker(t) THEN DockerDigestResults ELSE Digests) :
                tdigest' = [tdigest EXCEPT ![t] = d]
          /\ tphase' = [tphase EXCEPT ![t] = IF IsDocker(t) THEN "send" ELSE "publish"]
          /\ UNCHANGED <<tpc, sem, wg, gerr, firstFail>>
       \/ /\ \E m \in DigestMsgs(t) : Fail(t, m)
          /\ UNCHANGED <<tphase, tdigest>>
    /\ PipeFrame
    /\ UNCHANGED <<mpc, next, authDone, tunit,
                   imagesChan, chanClosed, heap, builtImages, currentImages,
                   dirExists, file, retErr, sent, fileTouched>>
    /\ UNCHANGED <<authCalls, sideVars>>

\* publish.NewDefault + p.Publish (Go services only)
Publish(t) ==
    /\ tpc[t] = "run"
    /\ tphase[t] = "publish"
    /\ \/ /\ tphase' = [tphase EXCEPT ![t] = "send"]
          /\ UNCHANGED <<tpc, sem, wg, gerr, firstFail>>
       \/ /\ \E m \in PublishMsgs : Fail(t, <<m>>)
          /\ UNCHANGED tphase
    /\ PipeFrame
    /\ UNCHANGED <<mpc, next, authDone, tunit, tdigest,
                   imagesChan, chanClosed, heap, builtImages, currentImages,
                   dirExists, file, retErr, sent, fileTouched>>
    /\ UNCHANGED <<authCalls, sideVars>>

\* A send on the buffered channel proceeds only while it is not full.
ChanSendDrop(c, x) == IF c = <<>> THEN <<x>> ELSE c
ChanSend(c, x) == Append(c, x)

\* The range over service.TargetsOrder is over after its last target (a Go
\* service stands for a single unit).
TargetsDoneAfterFirst(t, j) == TRUE
TargetsDone(t, j) == j >= NumUnits(t)

\* imagesChan <- image, then the next target or return nil.
Send(t) ==
    /\ tpc[t] = "run"
    /\ tphase[t] = "send"
    /\ Len(imagesChan) < ChanCap(numGo, dockerServices)
    /\ LET ptr == UnitPtr(t, tunit[t])
           img == MkImage(namespace, UnitName(t, tunit[t]), tdigest[t])
       IN /\ heap' = (ptr :> img) @@ heap
          /\ imagesChan' = ChanSend(imagesChan, ptr)
          /\ sent' = Append(sent, <<t, tunit[t]>>)
    /\ IF ~TargetsDone(t, tunit[t])
       THEN /\ tunit' = [tunit EXCEPT ![t] = @ + 1]
            /\ tphase' = [tphase EXCEPT ![t] = "build"]
            /\ UNCHANGED <<tpc, sem, wg>>
       ELSE /\ TaskExit(t)
            /\ UNCHANGED <<tunit, tphase>>
    /\ PipeFrame
    /\ UNCHANGED <<mpc, next, authDone, tdigest, gerr,
                   chanClosed, builtImages, currentImages,
                   dirExists, file, retErr, firstFail, fileTouched>>
    /\ UNCHANGED <<authCalls, sideVars>>

\* A Docker service without targets: the loop body never runs, f returns nil.
ReturnEmpty(t) ==
    /\ tpc[t] = "run"
    /\ tphase[t] = "return"
    /\ TaskExit(t)
    /\ PipeFrame
    /\ UNCHANGED <<mpc, next, authDone, tunit, tphase, tdigest, gerr,
                   imagesChan, chanClosed, heap, builtImages, currentImages,
                   dirExists, file, retErr, firstFail, sent, fileTouched>>
    /\ UNCHANGED <<authCalls, sideVars>>

\* --------------------------------------------------- updateK8sDeployment
\* for image := range imagesChan: one receive.
DrainRecv ==
    /\ mpc = "drain"
    /\ imagesChan # <<>>
    /\ builtImages' = Append(builtImages, Head(imagesChan))
    /\ imagesChan' = Tail(imagesChan)
    /\ PipeFrame
    /\ UNCHANGED <<mpc, next, authDone, tpc, tunit, tphase, tdigest, sem, wg,
                   gerr, chanClosed, heap, currentImages,
                   dirExists, file, retErr, firstFail, sent, fileTouched>>
    /\ UNCHANGED <<authCalls, sideVars>>

\* The range loop ends when the channel is closed and empty.
RangeEndsOpen(c, closed) == c = <<>>
RangeEnds(c, closed) == closed /\ c = <<>>

DrainEnd ==
    /\ mpc = "drain"
    /\ RangeEnds(imagesChan, chanClosed)
    /\ mpc' = "load"
    /\ PipeFrame
    /\ UNCHANGED <<next, authDone, tpc, tunit, tphase, tdigest, sem, wg, gerr,
                   imagesChan, chanClosed, heap, builtImages, currentImages,
                   dirExists, file, retErr, firstFail, sent, fileTouched>>
    /\ UNCHANGED <<authCalls, sideVars>>

\* The error getKustomiztion returns for what it finds on disk.
LoadErrIgnored(f) == NoErr
LoadErr(f) ==
    IF f = Unreadable THEN [kind |-> "fatal", msg |-> <<"read: permission denied">>]
    ELSE IF f = Corrupt THEN [kind |-> "fatal", msg |-> <<"yaml: unmarshal">>]
    ELSE NoErr

\* getKustomiztion(filePath) and the choice of currentImages. What is on disk
\* is an input: no file (with or without the directory .ippon), a file that
\* cannot be read, a document that does not parse, or a list of images.
Load ==
    /\ mpc = "load"
    /\ fileTouched' = TRUE
    /\ \E f \in InitialFiles, dir \in BOOLEAN :
        /\ f # NoFile => dir
        /\ file' = f
        /\ dirExists' = dir
        /\ IF LoadErr(f) # NoErr
           THEN /\ Return(LoadErr(f))
                /\ UNCHANGED <<heap, currentImages>>
           ELSE /\ heap' = LoadHeap(heap, TotalUnits, f.images)
                /\ currentImages' = LoadPtrs(TotalUnits, f.images)
                /\ mpc' = "reconcile"
                /\ UNCHANGED retErr
    /\ PipeFrame
    /\ UNCHANGED <<next, authDone, tpc, tunit, tphase, tdigest, sem, wg, gerr,
                   imagesChan, chanClosed, builtImages,
                   firstFail, sent>>
    /\ UNCHANGED <<authCalls, sideVars>>

\* The loop over builtImages.
Reconcile ==
    /\ mpc = "reconcile"
    /\ LET r == ReconcileFrom(heap, currentImages, builtImages, 1)
       IN /\ heap' = r.heap
          /\ currentImages' = r.cur
    /\ mpc' = "persist"
    /\ PipeFrame
    /\ UNCHANGED <<next, authDone, tpc, tunit, tphase, tdigest, sem, wg, gerr,
                   imagesChan, chanClosed, builtImages,
                   dirExists, file, retErr, firstFail, sent, fileTouched>>
    /\ UNCHANGED <<authCalls, sideVars>>

\* yaml.Marshal(images) and the first half of os.WriteFile(filePath, out,
\* 0644): the file is opened with O_WRONLY|O_CREATE|O_TRUNC, which creates
\* the file but not its directory and empties a file that exists.
Persist ==
    /\ mpc = "persist"
    /\ IF dirExists
       THEN /\ file' = Truncated
            /\ fileTouched' = TRUE
            /\ mpc' = "write"
            /\ UNCHANGED retErr
       ELSE /\ Return([kind |-> "fatal", msg |-> <<"open: no such file or directory">>])
            /\ UNCHANGED <<file, fileTouched>>
    /\ PipeFrame
    /\ UNCHANGED <<next, authDone, tpc, tunit, tphase, tdigest, sem, wg, gerr,
                   imagesChan, chanClosed, heap, builtImages, currentImages,
                   dirExists, firstFail, sent>>
    /\ UNCHANGED <<authCalls, sideVars>>

\* The second half of os.WriteFile: the marshalled document is written to
\* the open file and the file is closed.
PersistWrite ==
    /\ mpc = "write"
    /\ file' = Yaml(Deref(heap, currentImages))
    /\ Return(NoErr)
    /\ PipeFrame
    /\ UNCHANGED <<next, authDone, tpc, tunit, tphase, tdigest, sem, wg, gerr,
                   imagesChan, chanClosed, heap, builtImages, currentImages,
                   dirExists, firstFail, sent, fileTouched>>
    /\ UNCHANGED <<authCalls, sideVars>>

\* The next step of the function handed to g.Go for service t.
TaskStep(t) ==
    \/ Build(t)
    \/ Digest(t)
    \/ Publish(t)
    \/ Send(t)
    \/ ReturnEmpty(t)

Next ==
    \/ Auth
    \/ Submit
    \/ Wait
    \/ Close
    \/ \E t \in Tasks : Build(t)
    \/ \E t \in Tasks : Digest(t)
    \/ \E t \in Tasks : Publish(t)
    \/ \E t \in Tasks : Send(t)
    \/ \E t \in Tasks : ReturnEmpty(t)
    \/ DrainRecv
    \/ DrainEnd
    \/ Load
    \/ Reconcile
    \/ Persist
    \/ PersistWrite

Spec == Init /\ [][Next]_vars

\* The steps of the goroutine that runs registryCommand, and the tasks a
\* configuration can have. The Go scheduler runs every goroutine that can
\* take a step, and every external call is taken to return.
MainStep ==
    \/ Auth
    \/ Submit
    \/ Wait
    \/ Close
    \/ DrainRecv
    \/ DrainEnd
    \/ Load
    \/ Reconcile
    \/ Persist
    \/ PersistWrite
TaskIds == 1..(MaxGo + MaxDocker)
InitLive == Init /\ TotalUnits <= MaxLiveUnits
FairSpec ==
    /\ InitLive
    /\ [][Next]_vars
    /\ WF_vars(MainStep)
    /\ \A t \in TaskIds : WF_vars(t \in Tasks /\ TaskStep(t))

SpecGoFirst == InitGoFirst /\ [][Next]_vars
SpecAny == (Init \/ InitGoFirst) /\ [][Next]_vars


\* ------------------------------------------- the manifest store on its own
\* updateK8sDeployment from the drained list on, as a function of the
\* document that is loaded and the records that were drained: the records
\* are the objects 1..Len(recs), the loaded entries are allocated after them.
ReconcileValues(content, recs) ==
    LET h0 == [p \in 1..Len(recs) |-> recs[p]]
        built == [p \in 1..Len(recs) |-> p]
        r == ReconcileFrom(LoadHeap(h0, Len(recs), content),
                           LoadPtrs(Len(recs), content), built, 1)
    IN Deref(r.heap, r.cur)

\* The Image objects the tasks sent, read after the loop over builtImages
\* has run against the loaded document.
RecordsAfter(content, recs) ==
    LET h0 == [p \in 1..Len(recs) |-> recs[p]]
        built == [p \in 1..Len(recs) |-> p]
        r == ReconcileFrom(LoadHeap(h0, Len(recs), content),
                           LoadPtrs(Len(recs), content), built, 1)
    IN Deref(r.heap, built)

RcNames == {<<"go", 1>>, <<"go", 2>>, <<"legacy">>}
RcDigests == {"sha256:111", "sha256:222"}
RcRecords == {MkImage("dev", n, d) : n \in RcNames, d \in RcDigests}

SeqsUpTo(S, n) == UNION {[1..k -> S] : k \in 0..n}

\* p's elements in every order.
Reorderings(p) ==
    {[i \in 1..Len(p) |-> p[f[i]]] :
        f \in {g \in [1..Len(p) -> 1..Len(p)] :
                 \A i, k \in 1..Len(p) : i # k => g[i] # g[k]}}

InitReconcile ==
    /\ variant = "authFirst"
    /\ numGo = 0
    /\ dockerServices = <<>>
    /\ maxGoRoutines = 1
    /\ namespace = "dev"
    /\ mpc = "off"
    /\ next = 1
    /\ authDone = FALSE
    /\ tpc = <<>>
    /\ tunit = <<>>
    /\ tphase = <<>>
    /\ tdigest = <<>>
    /\ sem = 0
    /\ wg = 0
    /\ gerr = NoErr
    /\ imagesChan = <<>>
    /\ chanClosed = FALSE
    /\ heap = <<>>
    /\ builtImages = <<>>
    /\ currentImages = <<>>
    /\ file = Unread
    /\ dirExists = TRUE
    /\ retErr = NoErr
    /\ firstFail = 0
    /\ sent = <<>>
    /\ fileTouched = FALSE
    /\ authCalls = 0
    /\ rcM \in {m \in SeqsUpTo(RcRecords, MaxManifest) : DistinctKeys(m)}
    /\ rcR \in SeqsUpTo(RcRecords, MaxRecs)
    /\ rcR2 = <<>>
    /\ rcOnce = <<>>
    /\ rcTwice = <<>>
    /\ rcOther = <<>>
    /\ rcAfter = <<>>
    /\ rcPc = "start"
    /\ TgIdle
    /\ LgIdle
    /\ CrIdle
    /\ DkIdle
    /\ PrIdle

\* A run that drained rcR against the manifest rcM.
RcReconcile ==
    /\ rcPc = "start"
    /\ rcOnce' = ReconcileValues(rcM, rcR)
    /\ rcAfter' = RecordsAfter(rcM, rcR)
    /\ rcPc' = "once"
    /\ UNCHANGED <<rcM, rcR, rcR2, rcTwice, rcOther>>
    /\ UNCHANGED <<pipeVars, tgVars, lgVars, crVars, dkVars, prVars>>

\* A second run that drained the same records against the persisted result.
RcReapply ==
    /\ rcPc = "once"
    /\ rcTwice' = ReconcileValues(rcOnce, rcR)
    /\ rcPc' = "twice"
    /\ UNCHANGED <<rcM, rcR, rcR2, rcOnce, rcOther, rcAfter>>
    /\ UNCHANGED <<pipeVars, tgVars, lgVars, crVars, dkVars, prVars>>

\* A run against rcM whose tasks sent the same records in another order.
RcReorder ==
    /\ rcPc = "twice"
    /\ \E q \in Reorderings(rcR) :
        /\ rcR2' = q
        /\ rcOther' = ReconcileValues(rcM, q)
    /\ rcPc' = "done"
    /\ UNCHANGED <<rcM, rcR, rcOnce, rcTwice, rcAfter>>
    /\ UNCHANGED <<pipeVars, tgVars, lgVars, crVars, dkVars, prVars>>

NextReconcile ==
    \/ RcReconcile
    \/ RcReapply
    \/ RcReorder

SpecReconcile == InitReconcile /\ [][NextReconcile]_vars


\* No release command runs: the state of registryCommand's variables in the
\* specifications of the parts checked on their own.
PipeIdle ==
    /\ variant = "authFirst"
    /\ numGo = 0
    /\ dockerServices = <<>>
    /\ maxGoRoutines = 1
    /\ namespace = "dev"
    /\ mpc = "off"
    /\ next = 1
    /\ authDone = FALSE
    /\ tpc = <<>>
    /\ tunit = <<>>
    /\ tphase = <<>>
    /\ tdigest = <<>>
    /\ sem = 0
    /\ wg = 0
    /\ gerr = NoErr
    /\ imagesChan = <<>>
    /\ chanClosed = FALSE
    /\ heap = <<>>
    /\ builtImages = <<>>
    /\ currentImages = <<>>
    /\ file = Unread
    /\ dirExists = TRUE
    /\ retErr = NoErr
    /\ firstFail = 0
    /\ sent = <<>>
    /\ fileTouched = FALSE
    /\ authCalls = 0

\* --------------------------------------- the tags of a Go publish on its own
\* A string is the sequence of its parts: a digest is <<algorithm prefix, hex>>,
\* an explicit tag has one part.
TagValues == {<<"latest">>, <<"v1">>, <<"dev">>}
HashValues == {<<"sha256:", "111">>, <<"sha256:", "222">>}

\* buildAndPublishService of main.go appends the digest tag;
\* buildAndPublishGoService of repo.go passes the tags as they are.
TgVersions == {"buildAndPublishService", "buildAndPublishGoService"}

\* strings.TrimPrefix
TrimPrefix(str, prefix) ==
    IF str # <<>> /\ Head(str) = prefix THEN Tail(str) ELSE str

\* The argument of publish.WithTags.
PublishTags(version, tags, digest) ==
    IF version = "buildAndPublishService"
    THEN Append(tags, TrimPrefix(digest, "sha256:"))
    ELSE tags

InitTags ==
    /\ PipeIdle
    /\ RcIdle
    /\ LgIdle
    /\ CrIdle
    /\ DkIdle
    /\ PrIdle
    /\ tgVersion \in TgVersions
    /\ tgTags \in UNION {[1..n -> TagValues] : n \in 0..MaxTags}
    /\ tgDigest = <<>>
    /\ tgPushed = <<>>
    /\ tgPc = "digest"

\* r.Digest()
TgDigest ==
    /\ tgPc = "digest"
    /\ tgDigest' \in HashValues
    /\ tgPc' = "publish"
    /\ UNCHANGED <<tgVersion, tgTags, tgPushed>>
    /\ UNCHANGED <<pipeVars, rcVars, lgVars, crVars, dkVars, prVars>>

\* publish.NewDefault(baseURL, publish.WithTags(tags), ...) and p.Publish
TgPublish ==
    /\ tgPc = "publish"
    /\ tgPushed' = PublishTags(tgVersion, tgTags, tgDigest)
    /\ tgPc' = "published"
    /\ UNCHANGED <<tgVersion, tgTags, tgDigest>>
    /\ UNCHANGED <<pipeVars, rcVars, lgVars, crVars, dkVars, prVars>>

NextTags ==
    \/ TgDigest
    \/ TgPublish

SpecTags == InitTags /\ [][NextTags]_vars

\* ------------------------------------------------- the log output on its own
\* The main of main.go:231-272 sends the log to outputBuffer in a quiet run;
\* the main of main.go:371-417 sends it to io.Discard.
LgVersions == {"buffer", "discard"}
LogLines == {"ippon building service", "repository created in registry"}
FatalLine == "failed executing command"

\* log.SetOutput as main or PersistentPreRunE calls it; the log package
\* writes to stderr until then.
SetOutput(version, verbose) ==
    IF version = "buffer"
    THEN IF verbose THEN "stderr" ELSE "outputBuffer"
    ELSE IF verbose THEN "stdout" ELSE "discard"

InitLog ==
    /\ PipeIdle
    /\ RcIdle
    /\ TgIdle
    /\ CrIdle
    /\ DkIdle
    /\ PrIdle
    /\ lgVersion \in LgVersions
    /\ lgVerbose \in BOOLEAN
    /\ lgSink = "stderr"
    /\ lgBuffer = <<>>
    /\ lgLines = <<>>
    /\ lgShown = <<>>
    /\ lgPc = "start"

LgSetOutput ==
    /\ lgPc = "start"
    /\ lgSink' = SetOutput(lgVersion, lgVerbose)
    /\ lgPc' = "run"
    /\ UNCHANGED <<lgVersion, lgVerbose, lgBuffer, lgLines, lgShown>>
    /\ UNCHANGED <<pipeVars, rcVars, tgVars, crVars, dkVars, prVars>>

\* log.Printf / log.Println inside the command.
LgPrintf ==
    /\ lgPc = "run"
    /\ Len(lgLines) < MaxLogLines
    /\ \E line \in LogLines :
        /\ lgLines' = Append(lgLines, line)
        /\ lgShown' = IF lgSink \in {"stderr", "stdout"}
                      THEN Append(lgShown, line) ELSE lgShown
        /\ lgBuffer' = IF lgSink = "outputBuffer"
                       THEN Append(lgBuffer, line) ELSE lgBuffer
    /\ UNCHANGED <<lgVersion, lgVerbose, lgSink, lgPc>>
    /\ UNCHANGED <<pipeVars, rcVars, tgVars, crVars, dkVars, prVars>>

\* rootCmd.Execute() returned nil and main returns.
LgExit ==
    /\ lgPc = "run"
    /\ lgPc' = "exited"
    /\ UNCHANGED <<lgVersion, lgVerbose, lgSink, lgBuffer, lgLines, lgShown>>
    /\ UNCHANGED <<pipeVars, rcVars, tgVars, crVars, dkVars, prVars>>

\* finishWithError: fmt.Print(outputBuffer.String()), log.SetOutput(os.Stdout),
\* log.Fatalf.
LgFinishWithError ==
    /\ lgPc \in {"start", "run"}
    /\ lgShown' = (lgShown \o lgBuffer) \o <<FatalLine>>
    /\ lgSink' = "stdout"
    /\ lgPc' = "fatal"
    /\ UNCHANGED <<lgVersion, lgVerbose, lgBuffer, lgLines>>
    /\ UNCHANGED <<pipeVars, rcVars, tgVars, crVars, dkVars, prVars>>

NextLog ==
    \/ LgSetOutput
    \/ LgPrintf
    \/ LgExit
    \/ LgFinishWithError

SpecLog == InitLog /\ [][NextLog]_vars

\* ----------------------------------- createMissingReposCommand on its own
\* The body of repo.go:255-297 accepts every namespace; the bodies of
\* repo.go:556-601 and 851-888 return an error for the empty one.
CrVersions == {"anyNamespace", "needsNamespace"}

EmptyNamespaceErr ==
    [kind |-> "fatal",
     msg |-> <<"empty namespace flag is not supported for create-missing-repos command">>]

\* The flag check ahead of the loop.
NamespaceRefused(version, ns) == version = "needsNamespace" /\ ns = ""

\* serviceNames: the Go services' names, then the Docker targets' names.
RECURSIVE TargetNames(_, _)
TargetNames(dockerSvcs, i) ==
    IF i > Len(dockerSvcs) THEN <<>>
    ELSE [j \in 1..dockerSvcs[i] |-> <<"docker", i, j>>] \o TargetNames(dockerSvcs, i + 1)
ServiceNames(nGo, dockerSvcs) ==
    [i \in 1..nGo |-> <<"go", i>>] \o TargetNames(dockerSvcs, 1)

\* path.Join(namespace, repo) when a namespace is given.
RepoOf(ns, name) == IF ns # "" THEN <<ns, name>> ELSE <<name>>

InitRepos ==
    /\ PipeIdle
    /\ RcIdle
    /\ TgIdle
    /\ LgIdle
    /\ DkIdle
    /\ PrIdle
    /\ crVersion \in CrVersions
    /\ crNamespace \in Namespaces
    /\ crNumGo \in 0..MaxGo
    /\ crTargets \in DockerConfigs
    /\ crNumGo + SumSeq(crTargets) <= MaxRepos
    /\ crIdx = 1
    /\ crCalls = <<>>
    /\ crErr = NoErr
    /\ crPc = "start"

CrReturn(e) ==
    /\ crPc' = "returned"
    /\ crErr' = e

\* The loop goes on to the name at index i, or the command returns nil.
CrGoto(i) ==
    /\ crIdx' = i
    /\ IF i > Len(ServiceNames(crNumGo, crTargets))
       THEN CrReturn(NoErr)
       ELSE /\ crPc' = "exists"
            /\ UNCHANGED crErr

\* The flags are read and serviceNames is built.
CrStart ==
    /\ crPc = "start"
    /\ IF NamespaceRefused(crVersion, crNamespace)
       THEN /\ CrReturn(EmptyNamespaceErr)
            /\ UNCHANGED crIdx
       ELSE CrGoto(1)
    /\ UNCHANGED <<crVersion, crNamespace, crNumGo, crTargets, crCalls>>
    /\ UNCHANGED <<pipeVars, rcVars, tgVars, lgVars, dkVars, prVars>>

\* What RepositoryExists and CreateRepository can return.
ExistsResults == {"error", "true", "false"}
CreateResults == {"error", "nil"}

\* if !exists { CreateRepository }
NeedsCreateAlways(exists) == TRUE
NeedsCreate(exists) == exists = "false"

\* RepositoryExists(ctx, repo): an error, true, or false.
CrRepositoryExists ==
    /\ crPc = "exists"
    /\ \E res \in ExistsResults :
        /\ crCalls' = Append(crCalls,
                <<"RepositoryExists",
                  RepoOf(crNamespace, ServiceNames(crNumGo, crTargets)[crIdx]), res>>)
        /\ IF res = "error"
           THEN /\ CrReturn([kind |-> "fatal", msg |-> <<"RepositoryExists">>])
                /\ UNCHANGED crIdx
           ELSE IF NeedsCreate(res)
                THEN /\ crPc' = "create"
                     /\ UNCHANGED <<crIdx, crErr>>
                ELSE CrGoto(crIdx + 1)
    /\ UNCHANGED <<crVersion, crNamespace, crNumGo, crTargets>>
    /\ UNCHANGED <<pipeVars, rcVars, tgVars, lgVars, dkVars, prVars>>

\* CreateRepository(ctx, repo): an error or nil.
CrCreateRepository ==
    /\ crPc = "create"
    /\ \E res \in CreateResults :
        /\ crCalls' = Append(crCalls,
                <<"CreateRepository",
                  RepoOf(crNamespace, ServiceNames(crNumGo, crTargets)[crIdx]), res>>)
        /\ IF res = "error"
           THEN /\ CrReturn([kind |-> "fatal", msg |-> <<"CreateRepository">>])
                /\ UNCHANGED crIdx
           ELSE CrGoto(crIdx + 1)
    /\ UNCHANGED <<crVersion, crNamespace, crNumGo, crTargets>>
    /\ UNCHANGED <<pipeVars, rcVars, tgVars, lgVars, dkVars, prVars>>

NextRepos ==
    \/ CrStart
    \/ CrRepositoryExists
    \/ CrCreateRepository

SpecRepos == InitRepos /\ [][NextRepos]_vars



\* ---------------------------------- one Docker unit's build on its own
\* buildAndPublishDockerService for one target, with the tag list the
\* service's GetTags() returned: the configured list, else the global one,
\* either of which can be empty. The body of repo.go:98-117 builds with
\* --push; the body of repo.go:703-726 builds, then pushes tags[0].
DkVersions == {"pushInBuild", "pushAfterBuild"}
DkTagValues == {"latest", "v1"}
DkTarget == <<"docker", 1, 1>>

\* tags[0]: the index expression panics on an empty slice, and a panic in a
\* goroutine that nobody recovers ends the process.
IndexPanics(tags) == Len(tags) = 0
FirstTag(tags) == tags[1]

InitDocker ==
    /\ PipeIdle
    /\ RcIdle
    /\ TgIdle
    /\ LgIdle
    /\ CrIdle
    /\ PrIdle
    /\ dkVersion \in DkVersions
    /\ dkNamespace \in Namespaces
    /\ dkTags \in UNION {[1..n -> DkTagValues] : n \in 0..MaxTags}
    /\ dkKey = <<>>
    /\ dkImage = <<>>
    /\ dkErr = NoErr
    /\ dkPc = "build"

DkReturn(e) ==
    /\ dkPc' = "returned"
    /\ dkErr' = e

\* buildDockerImage: docker (buildx) build with one -t per tag; whether the
\* command fails without any -t is the docker client's business.
DkBuild ==
    /\ dkPc = "build"
    /\ \/ /\ dkPc' = IF dkVersion = "pushAfterBuild" THEN "push" ELSE "digest"
          /\ UNCHANGED dkErr
       \/ DkReturn([kind |-> "fatal", msg |-> <<"build docker image">>])
    /\ UNCHANGED <<dkVersion, dkNamespace, dkTags, dkKey, dkImage>>
    /\ UNCHANGED <<pipeVars, rcVars, tgVars, lgVars, crVars, prVars>>

\* pushDockerImage(repoName, tags[0])
DkPush ==
    /\ dkPc = "push"
    /\ IF IndexPanics(dkTags)
       THEN /\ dkPc' = "panic"
            /\ UNCHANGED dkErr
       ELSE \/ /\ dkPc' = "digest"
               /\ UNCHANGED dkErr
            \/ DkReturn([kind |-> "fatal", msg |-> <<"push docker image">>])
    /\ UNCHANGED <<dkVersion, dkNamespace, dkTags, dkKey, dkImage>>
    /\ UNCHANGED <<pipeVars, rcVars, tgVars, lgVars, crVars, prVars>>

\* getDockerImageDigest(repoName, tags[0]) and the record built from it.
DkDigest ==
    /\ dkPc = "digest"
    /\ IF IndexPanics(dkTags)
       THEN /\ dkPc' = "panic"
            /\ UNCHANGED <<dkKey, dkImage, dkErr>>
       ELSE /\ dkKey' = Append(dkKey, <<RepoName(dkNamespace, DkTarget), FirstTag(dkTags)>>)
            /\ \/ \E d \in DockerDigestResults :
                    /\ dkImage' = MkImage(dkNamespace, DkTarget, d)
                    /\ DkReturn(NoErr)
               \/ /\ \E m \in {<<"get docker image digest", "get docker image digest">>,
                                <<"get docker image digest", "unmarshal docker manifest">>} :
                        DkReturn([kind |-> "fatal", msg |-> m])
                  /\ UNCHANGED dkImage
    /\ UNCHANGED <<dkVersion, dkNamespace, dkTags>>
    /\ UNCHANGED <<pipeVars, rcVars, tgVars, lgVars, crVars, prVars>>

NextDocker ==
    \/ DkBuild
    \/ DkPush
    \/ DkDigest

SpecDocker == InitDocker /\ [][NextDocker]_vars


\* ------------------------------- the registry's pre-run hook on its own
\* cobra runs registryCmd's PersistentPreRunE before release's Run and does
\* not run release when the hook returns an error. The hook of main.go:57-63
\* calls registry.Init; the hook of part_001:61-72 first calls the parent's
\* hook, which ends up running this same hook for registryCmd (root's hook,
\* then registry.Init) before its own registry.Init.
PrVersions == {"direct", "chained"}
OktetoVars ==
    <<"OKTETO_REGISTRY_URL", "OKTETO_NAMESPACE", "OKTETO_USERNAME", "OKTETO_TOKEN">>
OktetoFields == <<"registryUrl", "namespace", "username", "token">>

\* The index of the first variable os.LookupEnv does not find, 0 if none.
FirstUnset(env) ==
    IF \A i \in 1..Len(OktetoVars) : OktetoVars[i] \in env
    THEN 0
    ELSE CHOOSE i \in 1..Len(OktetoVars) :
            /\ OktetoVars[i] \notin env
            /\ \A k \in 1..(i - 1) : OktetoVars[k] \in env

\* (*Okteto).Init: what it returns and the fields it has assigned by then.
OktetoInitUnchecked(env) == NoErr
OktetoInit(env) ==
    IF FirstUnset(env) = 0
    THEN NoErr
    ELSE [kind |-> "fatal",
          msg |-> <<"Failed getting Okteto's registry", OktetoVars[FirstUnset(env)]>>]
OktetoAssigned(env) ==
    {OktetoFields[i] : i \in {k \in 1..Len(OktetoFields) :
                                 OktetoVars[k] \in env /\ (FirstUnset(env) = 0 \/ k < FirstUnset(env))}}

\* (*Okteto).URL(): built from registryUrl and namespace, empty when unassigned.
OktetoURL(reg) ==
    <<IF "registryUrl" \in reg THEN "url" ELSE "", IF "namespace" \in reg THEN "ns" ELSE "">>

InitPreRun ==
    /\ PipeIdle
    /\ RcIdle
    /\ TgIdle
    /\ LgIdle
    /\ CrIdle
    /\ DkIdle
    /\ prVersion \in PrVersions
    /\ prEnv \in SUBSET {OktetoVars[i] : i \in 1..Len(OktetoVars)}
    /\ prServices \in 0..MaxGo
    /\ prPending = 0
    /\ prReg = {}
    /\ prInits = <<>>
    /\ prUrls = <<>>
    /\ prDispatched = 0
    /\ prErr = NoErr
    /\ prPc = "prerun"

PrReturn(e) ==
    /\ prPc' = "returned"
    /\ prErr' = e

\* The hook starts: the chained one runs the root command's hook first,
\* which can fail, and will call registry.Init twice.
PrPreRun ==
    /\ prPc = "prerun"
    /\ IF prVersion = "chained"
       THEN \/ /\ prPc' = "init"
               /\ prPending' = 2
               /\ UNCHANGED prErr
            \/ /\ PrReturn([kind |-> "fatal",
                            msg |-> <<"failed calling persistent pre run e on parent command",
                                      "failed getting verbose flag">>])
               /\ UNCHANGED prPending
       ELSE /\ prPc' = "init"
            /\ prPending' = 1
            /\ UNCHANGED prErr
    /\ UNCHANGED <<prVersion, prEnv, prServices, prReg, prInits, prUrls, prDispatched>>
    /\ UNCHANGED <<pipeVars, rcVars, tgVars, lgVars, crVars, dkVars>>

\* registry.Init(ctx); an error of the inner call is wrapped by the outer hook.
PrInit ==
    /\ prPc = "init"
    /\ prReg' = prReg \cup OktetoAssigned(prEnv)
    /\ prInits' = Append(prInits, OktetoInit(prEnv))
    /\ IF OktetoInit(prEnv) # NoErr
       THEN /\ PrReturn(IF prPending = 2
                        THEN [OktetoInit(prEnv) EXCEPT
                                !.msg = <<"failed calling persistent pre run e on parent command">> \o @]
                        ELSE OktetoInit(prEnv))
            /\ UNCHANGED prPending
       ELSE /\ prPending' = prPending - 1
            /\ prPc' = IF prPending = 1 THEN "run" ELSE "init"
            /\ UNCHANGED prErr
    /\ UNCHANGED <<prVersion, prEnv, prServices, prUrls, prDispatched>>
    /\ UNCHANGED <<pipeVars, rcVars, tgVars, lgVars, crVars, dkVars>>

\* release: g.Go for the next service, whose task reads registry.URL().
PrGo ==
    /\ prPc = "run"
    /\ prDispatched < prServices
    /\ prDispatched' = prDispatched + 1
    /\ prUrls' = Append(prUrls, OktetoURL(prReg))
    /\ UNCHANGED <<prVersion, prEnv, prServices, prPending, prReg, prInits, prErr, prPc>>
    /\ UNCHANGED <<pipeVars, rcVars, tgVars, lgVars, crVars, dkVars>>

\* release: g.Wait() once every service was handed over.
PrWait ==
    /\ prPc = "run"
    /\ prDispatched = prServices
    /\ \/ PrReturn(NoErr)
       \/ /\ prServices > 0
          /\ PrReturn([kind |-> "fatal", msg |-> <<"fatal error while building service">>])
    /\ UNCHANGED <<prVersion, prEnv, prServices, prPending, prReg, prInits, prUrls, prDispatched>>
    /\ UNCHANGED <<pipeVars, rcVars, tgVars, lgVars, crVars, dkVars>>

NextPreRun ==
    \/ PrPreRun
    \/ PrInit
    \/ PrGo
    \/ PrWait

SpecPreRun == InitPreRun /\ [][NextPreRun]_vars


\* ================================================================ properties
Range(q) == {q[i] : i \in 1..Len(q)}

Running == {t \in Tasks : tpc[t] = "run"}
AllReturned == \A t \in Tasks : tpc[t] = "fin"
AuthErr == [kind |-> "fatal", msg |-> <<"auth docker ecr">>]

\* Tasks whose f returned an error: they are over without their last record.
FailedTasks ==
    {t \in Tasks : tpc[t] = "fin" /\ NumUnits(t) > 0 /\ <<t, NumUnits(t)>> \notin Range(sent)}

\* registryCommand is past g.Wait().
PastWait ==
    \/ mpc \in {"close", "drain", "load", "reconcile", "persist", "write"}
    \/ mpc = "returned" /\ retErr # AuthErr

\* C1: with a limit N >= 1, the number of tasks that have been started and
\* have not returned never exceeds N, however many services are declared.
C1_AtMostNRunning ==
    maxGoRoutines >= 1 => Cardinality(Running) <= maxGoRoutines

C1_Witness ==
    /\ maxGoRoutines >= 1
    /\ NumTasks > maxGoRoutines
    /\ Cardinality(Running) = maxGoRoutines
    /\ next <= NumTasks
    /\ mpc = "loop"

\* C2: g.Wait() returns only when every task has been started and has
\* returned; once a task has failed, every running task can still take its
\* next step and the next service is still started as soon as a token is free.
C2_AllTasksRunToCompletion ==
    /\ PastWait => AllReturned
    /\ firstFail # 0 =>
        /\ \A t \in Running : ENABLED TaskStep(t)
        /\ (mpc = "loop" /\ next <= NumTasks /\ Cardinality(Running) < maxGoRoutines)
               => ENABLED Submit

C2_Witness ==
    /\ maxGoRoutines = 1
    /\ firstFail = 1
    /\ \E u \in Range(sent) : u[1] > 1
    /\ AllReturned
    /\ mpc = "returned"

\* C3: the error the run returns is that of the first task to fail, it is
\* returned after all tasks have returned, and once set the group's error
\* is never replaced.
C3_FirstErrorWins ==
    /\ []((mpc = "returned" /\ firstFail # 0) =>
            /\ retErr.kind = "task"
            /\ retErr.task = firstFail
            /\ retErr.msg = <<"fatal error while building service">> \o gerr.msg
            /\ AllReturned)
    /\ [][gerr # NoErr => gerr' = gerr]_vars

C3_Witness ==
    /\ mpc = "returned"
    /\ Cardinality(FailedTasks) >= 2
    /\ retErr.kind = "task"
    /\ retErr.task = firstFail
    /\ \E t \in FailedTasks : t < firstFail

\* C4: no Docker task is started before authDockerEcr has returned nil;
\* authDockerEcr is called at most once and takes no semaphore token.
C4_AuthBeforeDockerTasks ==
    /\ [](\A t \in Tasks : (IsDocker(t) /\ tpc[t] # "idle") => authDone)
    /\ [](authCalls <= 1)
    /\ [][authCalls' # authCalls => (sem' = sem /\ wg' = wg)]_vars

C4_Witness ==
    /\ variant = "goFirst"
    /\ authDone
    /\ \E t \in Tasks : IsDocker(t) /\ tpc[t] = "run" /\ tphase[t] = "build"
    /\ \E t \in Tasks : ~IsDocker(t) /\ tpc[t] = "run"

\* C5: when authDockerEcr fails the run returns with no task of either kind
\* started, and the manifest file untouched.
C5_AuthFailureRunsNoTask ==
    (mpc = "returned" /\ retErr = AuthErr) =>
        /\ \A t \in Tasks : tpc[t] = "idle"
        /\ ~fileTouched

\* C6: when every task succeeded and a namespace is given, the drained list
\* holds exactly one record per unit, whatever the order of the sends.
C6_OneRecordPerUnit ==
    mpc \in {"load", "reconcile", "persist", "write"} =>
        /\ Len(builtImages) = Cardinality(Units)
        /\ \A u \in Units :
            Cardinality({i \in 1..Len(builtImages) :
                heap[builtImages[i]].OldName = OldNameOf(UnitName(u[1], u[2]))}) = 1

C6_Witness ==
    /\ mpc = "load"
    /\ Len(builtImages) >= 3
    /\ builtImages[1] # 1
    /\ \E t \in Tasks : NumUnits(t) = 2

\* C7: the channel is drained and the manifest file read or written only
\* when the channel is closed and every task has returned.
C7_DrainAfterAllTasks ==
    (mpc \in {"drain", "load", "reconcile", "persist", "write"} \/ fileTouched) =>
        /\ chanClosed
        /\ AllReturned
        /\ \A t \in Tasks : ~(tpc[t] = "run" /\ tphase[t] = "send")

C7_Witness ==
    /\ mpc = "drain"
    /\ builtImages # <<>>
    /\ imagesChan # <<>>
    /\ NumTasks >= 2

\* C8: the channel's capacity is the number of units, the channel never
\* holds more, and a task that is about to send finds room although nothing
\* is received before all tasks have returned.
C8_SendNeverBlocks ==
    /\ ChanCap(numGo, dockerServices) = Cardinality(Units)
    /\ Len(imagesChan) <= Cardinality(Units)
    /\ \A t \in Tasks :
        (tpc[t] = "run" /\ tphase[t] = "send") =>
            Len(imagesChan) < ChanCap(numGo, dockerServices)

C8_Witness ==
    /\ mpc = "loop"
    /\ Cardinality(Units) >= 3
    /\ Len(imagesChan) = Cardinality(Units) - 1
    /\ \E t \in Tasks : tpc[t] = "run" /\ tphase[t] = "send" /\ IsDocker(t) /\ tunit[t] = 2


Keys(content) == {content[i].OldName : i \in 1..Len(content)}

\* The records of recs whose key the manifest m does not hold, in their order.
NewRecords(m, recs) == SelectSeq(recs, LAMBDA r : r.OldName \notin Keys(m))

\* C9: reconciling the same records into the reconciled manifest again
\* yields the same ordered manifest.
C9_ReconcileIdempotent ==
    rcPc \in {"twice", "done"} => rcTwice = rcOnce

C9_Witness ==
    /\ rcPc = "twice"
    /\ Len(rcR) >= 2
    /\ Len(rcM) >= 1
    /\ Len(rcOnce) > Len(rcM)
    /\ \E i \in 1..Len(rcM) : rcOnce[i] # rcM[i]
    /\ rcTwice = rcOnce

LastOf(recs, k) ==
    recs[CHOOSE i \in 1..Len(recs) :
            /\ recs[i].OldName = k
            /\ \A j \in (i + 1)..Len(recs) : recs[j].OldName # k]

\* The positions of content that hold the key k.
IndexesOf(content, k) == {i \in 1..Len(content) : content[i].OldName = k}

\* The records of recs with the key k, in their order.
RecordsOf(recs, k) == SelectSeq(recs, LAMBDA r : r.OldName = k)

\* q is p with the records at the positions i and j exchanged.
Swapped(p, q, i, j) ==
    /\ Len(q) = Len(p)
    /\ q[i] = p[j]
    /\ q[j] = p[i]
    /\ \A n \in 1..Len(p) : n \notin {i, j} => q[n] = p[n]

\* C11: the manifest holds one entry per key of the records, with the
\* newReference of the last record reconciled for that key; exchanging two
\* records of one key leaves the entries of every other key as they were.
C11_LastAppliedWins ==
    rcPc = "done" =>
        /\ \A k \in Keys(rcR) :
            /\ Cardinality(IndexesOf(rcOnce, k)) = 1
            /\ \A i \in IndexesOf(rcOnce, k) :
                rcOnce[i].NewName = LastOf(rcR, k).NewName
            /\ Cardinality(IndexesOf(rcOther, k)) = 1
            /\ \A i \in IndexesOf(rcOther, k) :
                rcOther[i].NewName = LastOf(rcR2, k).NewName
        /\ (\A n \in 1..Len(rcR) : rcR2[n].OldName = rcR[n].OldName) =>
            /\ Len(rcOther) = Len(rcOnce)
            /\ \A i \in 1..Len(rcOnce) :
                /\ rcOther[i].OldName = rcOnce[i].OldName
                /\ RecordsOf(rcR2, rcOnce[i].OldName) = RecordsOf(rcR, rcOnce[i].OldName)
                    => rcOther[i] = rcOnce[i]

C11_Witness ==
    /\ rcPc = "done"
    /\ Len(rcM) >= 1
    /\ \E i, j \in 1..Len(rcR) :
        /\ i < j
        /\ rcR[i].OldName = rcR[j].OldName
        /\ rcR[i].NewName # rcR[j].NewName
        /\ rcR[i].OldName \notin Keys(rcM)
        /\ Swapped(rcR, rcR2, i, j)
        /\ \E n \in IndexesOf(rcOnce, rcR[i].OldName) :
            /\ rcOnce[n].NewName = rcR[j].NewName
            /\ rcOther[n].NewName = rcR[i].NewName
        /\ \E n \in 1..Len(rcR) :
            /\ rcR[n].OldName # rcR[i].OldName
            /\ rcR[n].OldName \in Keys(rcM)
            /\ rcR[n] \notin Range(rcM)

\* C12: a record whose key the loaded manifest holds overwrites that entry's
\* value where it stands and the length stays; a record of an absent key
\* adds exactly one entry at the end. One record go/1@sha256:222 against a
\* manifest holding go/1@sha256:111 leaves one go/1 entry, at its position,
\* with sha256:222.
C12_OverwriteInPlaceElseAppend ==
    rcPc # "start" =>
        /\ Len(rcOnce) = Len(rcM) + Cardinality(Keys(rcR) \ Keys(rcM))
        /\ \A i \in 1..Len(rcM) :
            /\ rcOnce[i].OldName = rcM[i].OldName
            /\ rcM[i].OldName \in Keys(rcR) =>
                rcOnce[i].NewName = LastOf(rcR, rcM[i].OldName).NewName
        /\ Len(rcR) = 1 =>
            IF rcR[1].OldName \in Keys(rcM)
            THEN /\ Len(rcOnce) = Len(rcM)
                 /\ \A i \in 1..Len(rcM) :
                     rcOnce[i] = IF rcM[i].OldName = rcR[1].OldName
                                 THEN rcR[1] ELSE rcM[i]
            ELSE rcOnce = Append(rcM, rcR[1])
        /\ \A i \in 1..Len(rcM) :
            (/\ rcM[i] = MkImage("dev", <<"go", 1>>, "sha256:111")
             /\ rcR = <<MkImage("dev", <<"go", 1>>, "sha256:222")>>) =>
                /\ IndexesOf(rcOnce, OldNameOf(<<"go", 1>>)) = {i}
                /\ rcOnce[i] = MkImage("dev", <<"go", 1>>, "sha256:222")

C12_Witness ==
    /\ rcPc = "once"
    /\ Len(rcM) = 2
    /\ rcM[1] = MkImage("dev", <<"go", 1>>, "sha256:111")
    /\ rcR = <<MkImage("dev", <<"go", 1>>, "sha256:222")>>
    /\ rcOnce = <<MkImage("dev", <<"go", 1>>, "sha256:222"), rcM[2]>>

\* C13: an entry of the loaded manifest whose key no record carries is in
\* the result unchanged, and the loaded entries keep their order ahead of
\* every appended entry.
C13_UntouchedEntriesKept ==
    rcPc # "start" =>
        /\ Len(rcOnce) >= Len(rcM)
        /\ \A i \in 1..Len(rcM) :
            /\ rcOnce[i].OldName = rcM[i].OldName
            /\ rcM[i].OldName \notin Keys(rcR) => rcOnce[i] = rcM[i]
        /\ \A i \in (Len(rcM) + 1)..Len(rcOnce) :
            rcOnce[i].OldName \notin Keys(rcM)

C13_Witness ==
    /\ rcPc = "once"
    /\ Len(rcM) = 2
    /\ rcM[1].OldName \notin Keys(rcR)
    /\ rcM[2].OldName \in Keys(rcR)
    /\ rcOnce[1] = rcM[1]
    /\ rcOnce[2] # rcM[2]
    /\ Len(rcOnce) > Len(rcM)

\* C14: no two entries of a reconciled manifest have the same oldReference,
\* also when the records repeat a key.
C14_KeysUnique ==
    /\ rcPc # "start" => DistinctKeys(rcOnce)
    /\ rcPc \in {"twice", "done"} => DistinctKeys(rcTwice)
    /\ rcPc = "done" => DistinctKeys(rcOther)

C14_Witness ==
    /\ rcPc = "done"
    /\ ~DistinctKeys(rcR)
    /\ Keys(rcR) \cap Keys(rcM) # {}
    /\ Keys(rcR) \ Keys(rcM) # {}
    /\ DistinctKeys(rcOnce)
    /\ Len(rcOnce) > Len(rcM)

\* C15: when the manifest path does not exist the load gives an empty
\* manifest and no error, and the run goes on to persist exactly the records
\* of this run.
C15_AbsentFileStartsEmpty ==
    [][/\ (mpc = "load" /\ mpc' # "load" /\ file' = NoFile) =>
            (mpc' = "reconcile" /\ currentImages' = <<>> /\ retErr' = NoErr)
       /\ (mpc = "persist" /\ mpc' # "persist" /\ file = NoFile) =>
            /\ currentImages = builtImages
            /\ mpc' = "write"
            /\ retErr' = NoErr
       /\ (mpc = "write" /\ mpc' # "write") =>
            /\ retErr' = NoErr
            /\ file' = Yaml(Deref(heap, currentImages))]_vars

\* C16: with an empty namespace the manifest file is neither read nor
\* written and updateK8sDeployment is never entered, whether the tasks fail
\* or not, and the command still returns only after every task has been
\* started and has returned; without a failure every unit was built and
\* published.
C16_NoNamespaceNoManifest ==
    namespace = "" =>
        /\ file = Unread
        /\ ~fileTouched
        /\ mpc \notin {"drain", "load", "reconcile", "persist", "write"}
        /\ builtImages = <<>>
        /\ PastWait => AllReturned
        /\ (mpc = "returned" /\ retErr = NoErr) => Range(sent) = Units

C16_Witness ==
    /\ namespace = ""
    /\ mpc = "returned"
    /\ retErr = NoErr
    /\ chanClosed
    /\ Cardinality(Units) >= 2
    /\ Range(sent) = Units
    /\ file = Unread

\* C20: a first run with a namespace, no manifest and no directory for it
\* ends without error and with the manifest file written.
C20_PersistCreatesParent ==
    (mpc = "returned" /\ ~dirExists) =>
        /\ retErr = NoErr
        /\ file.kind = "yaml"

\* C17: a Docker digest lookup that receives no descriptor makes the task
\* fail: no task goes on to send with the empty digest and no record with an
\* empty digest is produced.
C17_EmptyDescriptorsFailTask ==
    /\ \A t \in Tasks :
        (IsDocker(t) /\ tpc[t] = "run" /\ tphase[t] = "send") => tdigest[t] # ""
    /\ \A u \in Range(sent) : heap[UnitPtr(u[1], u[2])].NewName[2] # ""

\* The unit at which task t stands (where it failed, when it failed).
UnitAt(t) == <<t, tunit[t]>>

ErrorsOf(t, ph) ==
    CASE ph = "build" -> {<<WrapOuter(t), m>> : m \in BuildMsgs(t)}
      [] ph = "digest" -> {<<WrapOuter(t)>> \o m : m \in DigestMsgs(t)}
      [] ph = "publish" -> IF IsDocker(t) THEN {}
                           ELSE {<<WrapOuter(t), m>> : m \in PublishMsgs}
      [] OTHER -> {}

\* C19: the error a failed task hands to the command tells the phase that
\* failed and the unit that failed: no other phase and no other declared
\* unit gives the same error text.
C19_ErrorNamesUnitAndPhase ==
    (mpc = "returned" /\ retErr.kind = "task") =>
        LET t == retErr.task
            m == Tail(retErr.msg)
        IN /\ m \in ErrorsOf(t, tphase[t])
           /\ \A ph \in {"build", "digest", "publish"} \ {tphase[t]} :
                m \notin ErrorsOf(t, ph)
           /\ \A u \in Units \ {UnitAt(t)} : m \notin ErrorsOf(u[1], tphase[t])

\* The part of C19 about the phase alone.
C19_ErrorNamesPhase ==
    (mpc = "returned" /\ retErr.kind = "task") =>
        LET t == retErr.task
            m == Tail(retErr.msg)
        IN /\ m \in ErrorsOf(t, tphase[t])
           /\ \A ph \in {"build", "digest", "publish"} \ {tphase[t]} :
                m \notin ErrorsOf(t, ph)

\* C21: the manifest file is at every instant a complete document, the one
\* that was there before or the reconciled one, never one cut short.
C21_FileNeverPartial ==
    /\ file # Truncated
    /\ mpc \in {"reconcile", "persist", "write"} => file.kind \in {"absent", "yaml"}

\* C22: when the manifest file cannot be read or parsed the command has
\* returned that error, nothing was reconciled, and the file stays as found.
C22_LoadErrorAborts ==
    /\ [](file \in {Corrupt, Unreadable} =>
            /\ mpc = "returned"
            /\ retErr = LoadErr(file)
            /\ retErr # NoErr
            /\ currentImages = <<>>)
    /\ [][(file \in {Corrupt, Unreadable}) => (file' = file)]_vars

C22_Witness ==
    /\ file = Corrupt
    /\ mpc = "returned"
    /\ retErr = [kind |-> "fatal", msg |-> <<"yaml: unmarshal">>]
    /\ Len(builtImages) >= 2

\* C23: with a limit N >= 1 and services left to start, the submitter is
\* blocked exactly while N tasks are running: as soon as one of them has
\* returned the next service can be started, whatever the other running
\* tasks are doing.
C23_SlotBasedAdmission ==
    (maxGoRoutines >= 1 /\ mpc = "loop" /\ authDone /\ next <= NumTasks) =>
        /\ sem = Cardinality(Running)
        /\ Cardinality(Running) = maxGoRoutines => ~ENABLED Submit
        /\ Cardinality(Running) < maxGoRoutines => ENABLED Submit

C23_Witness ==
    /\ maxGoRoutines = 2
    /\ mpc = "loop"
    /\ next = 3
    /\ NumTasks = 3
    /\ Cardinality(Running) = 1
    /\ \E t \in Tasks : tpc[t] = "fin"
    /\ ENABLED Submit

\* C24: a service is handed to g.Go only after every service before it in
\* the order of the loops has got its token, and once the command is past
\* g.Wait() every declared service has been handed to g.Go.
C24_SubmittedInOrder ==
    /\ \A t \in Tasks : tpc[t] # "idle" <=> t < next
    /\ PastWait => (next = NumTasks + 1 /\ \A t \in Tasks : tpc[t] # "idle")
    /\ (mpc = "returned" /\ \E t \in Tasks : tpc[t] = "idle") => retErr = AuthErr

C24_Witness ==
    /\ mpc = "returned"
    /\ retErr # AuthErr
    /\ NumTasks = 3
    /\ maxGoRoutines = 1
    /\ firstFail = 1
    /\ next = 4

\* The units task t did not produce a record for, once it has failed: the
\* failing one and the targets after it.
UnitsLost(t) == IF t \in FailedTasks THEN NumUnits(t) - tunit[t] + 1 ELSE 0

\* C25 as stated: with 3 units and the limit 2, whenever tasks are running
\* exactly 2 are, and the records produced are 3 minus the failed units.
C25_ExactlyTwoOfThree ==
    (TotalUnits = 3 /\ maxGoRoutines = 2) =>
        /\ Running # {} => Cardinality(Running) = 2
        /\ PastWait => Len(sent) = 3 - Cardinality(FailedTasks)

\* C25 amended: with 3 units and the limit 2, at most 2 tasks are running
\* at any instant, exactly 2 are whenever a service is waiting for a token,
\* and once the pool has run the records produced are 3 minus the failed
\* units and the targets that follow a failed one in its Docker service.
C25_AtMostTwoOfThree ==
    (TotalUnits = 3 /\ maxGoRoutines = 2) =>
        /\ Cardinality(Running) <= 2
        /\ (mpc = "loop" /\ authDone /\ next <= NumTasks /\ ~ENABLED Submit) =>
            Cardinality(Running) = 2
        /\ PastWait =>
            /\ Len(sent) = 3 - SumSeq([t \in 1..NumTasks |-> UnitsLost(t)])
            /\ (\A t \in Tasks : NumUnits(t) = 1) =>
                Len(sent) = 3 - Cardinality(FailedTasks)

C25_Witness ==
    /\ TotalUnits = 3
    /\ maxGoRoutines = 2
    /\ mpc = "returned"
    /\ \E t \in FailedTasks :
        /\ FailedTasks = {t}
        /\ NumUnits(t) = 2
        /\ tunit[t] = 1
    /\ Len(sent) = 1

\* C26: the record a task created keeps its OldName and NewName through the
\* reconciliation: read after the loop, every record is as it was sent.
C26_RecordsNeverMutated ==
    rcPc # "start" => rcAfter = rcR

\* The part of C26 that the loop keeps: records with pairwise distinct keys
\* stay as they were sent.
C26_DistinctKeysNeverMutated ==
    (rcPc # "start" /\ DistinctKeys(rcR)) => rcAfter = rcR

\* C27: the tags a Go publish pushes are the service's tags in their order
\* followed by the digest without its sha256: prefix.
C27_DigestTagAppended ==
    tgPc = "published" =>
        /\ Len(tgPushed) = Len(tgTags) + 1
        /\ SubSeq(tgPushed, 1, Len(tgTags)) = tgTags
        /\ tgPushed[Len(tgPushed)] = <<tgDigest[2]>>

\* The part of C27 that buildAndPublishService of main.go keeps.
C27_ServiceAppendsDigestTag ==
    (tgPc = "published" /\ tgVersion = "buildAndPublishService") =>
        tgPushed = Append(tgTags, <<tgDigest[2]>>)

\* The record of the unit u that was sent.
RecordOf(u) == heap[UnitPtr(u[1], u[2])]

\* C28: the record of every unit that was sent has the key
\* registry.lema.ai/<name> and the value <repository>@<digest> with the
\* repository qualified by the namespace and a digest that is not empty;
\* distinct units have distinct keys.
C28_RecordShape ==
    /\ \A u \in Range(sent) :
        \E d \in Digests :
            /\ d # ""
            /\ RecordOf(u) = [OldName |-> <<FixedDomain, UnitName(u[1], u[2])>>,
                              NewName |-> <<RepoName(namespace, UnitName(u[1], u[2])), d>>]
    /\ \A u, v \in Range(sent) : u # v => RecordOf(u).OldName # RecordOf(v).OldName

\* The part of C28 that holds: key, repository and distinct keys, with the
\* digest as getDockerImageDigest or r.Digest() returned it.
C28_RecordShapeAnyDigest ==
    /\ \A u \in Range(sent) :
        \E d \in Digests \cup DockerDigestResults :
            RecordOf(u) = [OldName |-> <<FixedDomain, UnitName(u[1], u[2])>>,
                           NewName |-> <<RepoName(namespace, UnitName(u[1], u[2])), d>>]
    /\ \A u, v \in Range(sent) : u # v => RecordOf(u).OldName # RecordOf(v).OldName

\* C29: a quiet run shows no log line unless it ends in a fatal error, and
\* then it shows every log line produced before the error, followed by the
\* error.
C29_QuietRunBuffersLog ==
    ~lgVerbose =>
        /\ lgPc \in {"run", "exited"} => lgShown = <<>>
        /\ lgPc = "fatal" => lgShown = Append(lgLines, FatalLine)

\* The part of C29 that holds in both versions of main: a quiet run that
\* succeeds shows nothing; and the version with outputBuffer shows every
\* line on a fatal error.
C29_QuietSuccessShowsNothing ==
    ~lgVerbose =>
        /\ lgPc \in {"run", "exited"} => lgShown = <<>>
        /\ (lgPc = "fatal" /\ lgVersion = "buffer") => lgShown = Append(lgLines, FatalLine)

\* C30: create-missing-repos with an empty namespace returns an error and
\* calls neither RepositoryExists nor CreateRepository.
C30_EmptyNamespaceRefused ==
    (crNamespace = "" /\ crPc \notin {"off", "start"}) =>
        /\ crPc = "returned"
        /\ crErr = EmptyNamespaceErr
        /\ crCalls = <<>>

\* The part of C30 that the bodies with the namespace check keep.
C30_RefusedWhereChecked ==
    (crVersion = "needsNamespace" /\ crNamespace = "" /\ crPc \notin {"off", "start"}) =>
        /\ crPc = "returned"
        /\ crErr = EmptyNamespaceErr
        /\ crCalls = <<>>

\* The error registryCommand returns when g.Wait() returned e.
BuildFailure(e) == [e EXCEPT !.msg = <<"fatal error while building service">> \o @]

\* C31: once a task has failed, the result queue is never closed or drained
\* and the manifest is neither read nor written; the run can only return,
\* and then it returns the first task error, wrapped, whatever records the
\* other tasks left in the queue.
C31_FailureSkipsManifest ==
    gerr # NoErr =>
        /\ mpc \in {"loop", "returned"}
        /\ mpc = "returned" => retErr = BuildFailure(gerr)
        /\ ~chanClosed
        /\ builtImages = <<>>
        /\ currentImages = <<>>
        /\ file = Unread
        /\ ~fileTouched
        /\ Len(imagesChan) = Len(sent)

\* A failed run has returned while a record of a sibling task is queued.
C31_Witness ==
    /\ mpc = "returned"
    /\ gerr # NoErr
    /\ retErr = BuildFailure(gerr)
    /\ \E t \in Tasks \ FailedTasks : <<t, NumUnits(t)>> \in Range(sent)
    /\ imagesChan # <<>>

\* The positions in sent of the records of task t, and the units they are of.
SentBy(t) == {i \in 1..Len(sent) : sent[i][1] = t}

\* C32: a Docker service is one task that takes its targets in TargetsOrder
\* order: while it works on target j, exactly the records of targets 1..j-1
\* have been enqueued, in that order; it holds one slot while it runs and
\* none after; it enqueues at most one record per target, and all of them
\* when it returns without an error.
C32_TargetsInOrder ==
    /\ sem = Cardinality(Running)
    /\ \A t \in Tasks :
        IsDocker(t) =>
            /\ Cardinality(SentBy(t)) <= NumUnits(t)
            /\ \A i, k \in SentBy(t) : i < k => sent[i][2] < sent[k][2]
            /\ \A i \in SentBy(t) :
                \A j \in 1..(sent[i][2] - 1) : \E k \in 1..(i - 1) : sent[k] = <<t, j>>
            /\ tpc[t] = "run" =>
                \A j \in 1..NumUnits(t) : j < tunit[t] <=> <<t, j>> \in Range(sent)
            /\ (tpc[t] = "fin" /\ gerr = NoErr) =>
                \A j \in 1..NumUnits(t) : <<t, j>> \in Range(sent)

\* Two Docker services run side by side: the second service's first target
\* is enqueued between the two targets of the first service.
C32_Witness ==
    \E t1, t2 \in Tasks :
        /\ t1 # t2
        /\ IsDocker(t1)
        /\ IsDocker(t2)
        /\ maxGoRoutines = 2
        /\ tpc[t1] = "run"
        /\ tphase[t1] = "send"
        /\ tunit[t1] = 2
        /\ sent = <<<<t1, 1>>, <<t2, 1>>>>

\* C33: with a limit N >= 1, a run in which every goroutine that can take a
\* step does take it eventually returns.
\* It returns with the credential error, with the first task error, or past
\* close(imagesChan), where updateK8sDeployment has run unless the namespace
\* is empty.
C33_RunReturns ==
    /\ (maxGoRoutines >= 1) ~> (mpc = "returned")
    /\ [](mpc = "returned" =>
            \/ retErr = AuthErr /\ gerr = NoErr /\ ~chanClosed
            \/ gerr # NoErr /\ retErr = BuildFailure(gerr) /\ ~chanClosed
            \/ gerr = NoErr /\ chanClosed /\ (NoNamespace(namespace) \/ file # Unread))

\* Every slot is taken, a service is still waiting for one, the queue holds
\* a record, and the run goes on to return.
C33_Witness ==
    /\ maxGoRoutines >= 1
    /\ mpc = "returned"
    /\ NumTasks > maxGoRoutines
    /\ Len(sent) = TotalUnits
    /\ TotalUnits = MaxLiveUnits
    /\ retErr = NoErr
    /\ fileTouched

\* C34 as stated: with a limit of 0 and at least one declared unit no task
\* ever starts and the run never returns.
C34_LimitZeroNeverReturns ==
    (maxGoRoutines = 0 /\ TotalUnits >= 1) =>
        /\ \A t \in Tasks : tpc[t] = "idle"
        /\ mpc # "returned"

\* C34 amended: with a limit of 0 and at least one declared unit, g.Go can
\* never take a slot for the first service: no task starts, nothing is
\* enqueued, g.Wait() is not reached, and the run returns only if
\* authDockerEcr fails before the first submission.
C34_LimitZeroBlocks ==
    (maxGoRoutines = 0 /\ TotalUnits >= 1) =>
        /\ \A t \in Tasks : tpc[t] = "idle"
        /\ next = 1
        /\ sent = <<>>
        /\ ~ENABLED Submit
        /\ ~ENABLED Wait
        /\ mpc \in {"loop", "returned"}
        /\ mpc = "returned" => retErr = AuthErr
        /\ (mpc = "loop" /\ (authDone \/ next # AuthPos(variant, numGo, NumDocker))) =>
            ~ENABLED Next

\* The credentials are in place and the command stands at the first g.Go.
C34_Witness ==
    /\ maxGoRoutines = 0
    /\ TotalUnits >= 1
    /\ mpc = "loop"
    /\ authDone
    /\ next = 1
    /\ ~ENABLED Next

\* C35: a Docker unit that is at its digest phase has a tag to look up, and
\* the index expression tags[0] never panics.
C35_FirstTagInBounds ==
    /\ dkPc = "digest" => dkTags # <<>>
    /\ dkPc # "panic"

\* What holds of the lookup: a unit with at least one tag never panics and
\* queries the digest of its first tag, once.
C35_NonEmptyTagsLookUpFirst ==
    dkTags # <<>> =>
        /\ dkPc # "panic"
        /\ dkKey \in {<<>>, <<<<RepoName(dkNamespace, DkTarget), dkTags[1]>>>>}
        /\ (dkPc = "returned" /\ dkErr = NoErr) => dkKey # <<>>

\* The repository names of the command under test, in loop order, and the
\* positions in crCalls of the calls of one method.
CrRepos ==
    [i \in 1..Len(ServiceNames(crNumGo, crTargets)) |->
        RepoOf(crNamespace, ServiceNames(crNumGo, crTargets)[i])]
CallsOf(method) == {p \in 1..Len(crCalls) : crCalls[p][1] = method}
NumCallsUpTo(method, p) == Cardinality({q \in CallsOf(method) : q <= p})

\* C36: the k-th RepositoryExists call is for the k-th name (Go services,
\* then Docker targets); CreateRepository is called for a name exactly when
\* the RepositoryExists call right before it, for the same name, returned
\* (false, nil); an error of either call is the last call made and is what
\* the command returns; a nil return has checked every name; and no call
\* made is ever taken back.
C36_CheckThenCreateInOrder ==
    /\ [](/\ \A p \in CallsOf("RepositoryExists") :
               /\ NumCallsUpTo("RepositoryExists", p) <= Len(CrRepos)
               /\ crCalls[p][2] = CrRepos[NumCallsUpTo("RepositoryExists", p)]
               /\ (crCalls[p][3] = "false" /\ (p < Len(crCalls) \/ crPc = "returned")) =>
                       /\ p < Len(crCalls)
                       /\ crCalls[p + 1][1] = "CreateRepository"
               /\ (crCalls[p][3] = "false" /\ p = Len(crCalls)) => crPc = "create"
          /\ \A p \in CallsOf("CreateRepository") :
               /\ p > 1
               /\ crCalls[p - 1] = <<"RepositoryExists", crCalls[p][2], "false">>
          /\ \A p \in 1..Len(crCalls) :
               crCalls[p][3] = "error" =>
                   /\ p = Len(crCalls)
                   /\ crPc = "returned"
                   /\ crErr = [kind |-> "fatal", msg |-> <<crCalls[p][1]>>]
          /\ (crPc = "returned" /\ crErr = NoErr) =>
               NumCallsUpTo("RepositoryExists", Len(crCalls)) = Len(CrRepos)
          /\ (crPc = "returned" /\ crErr \notin {NoErr, EmptyNamespaceErr}) =>
               (crCalls # <<>> /\ crCalls[Len(crCalls)][3] = "error"))
    /\ [][Len(crCalls') >= Len(crCalls) /\ SubSeq(crCalls', 1, Len(crCalls)) = crCalls]_vars

\* The first repository was created, the creation of the second failed, and
\* the third name was never checked.
C36_Witness ==
    /\ Len(CrRepos) = 3
    /\ crNumGo = 1
    /\ crPc = "returned"
    /\ crCalls = << <<"RepositoryExists", CrRepos[1], "false">>,
                    <<"CreateRepository", CrRepos[1], "nil">>,
                    <<"RepositoryExists", CrRepos[2], "false">>,
                    <<"CreateRepository", CrRepos[2], "error">> >>

\* C37: release hands a service to g.Go, and a task reads the registry's
\* URL, only after every call of registry.Init the hook makes has returned
\* nil, with the four variables set and the four fields assigned; when a
\* variable is unset, Init returns an error, the command returns it and no
\* service is ever handed over.
C37_InitBeforeRelease ==
    /\ (prPc = "run" \/ prDispatched > 0 \/ prUrls # <<>>) =>
        /\ prInits # <<>>
        /\ prPending = 0
        /\ \A i \in 1..Len(prInits) : prInits[i] = NoErr
        /\ \A i \in 1..Len(OktetoVars) : OktetoVars[i] \in prEnv
        /\ \A i \in 1..Len(OktetoFields) : OktetoFields[i] \in prReg
        /\ \A i \in 1..Len(prUrls) : prUrls[i] = <<"url", "ns">>
    /\ (\E i \in 1..Len(OktetoVars) : OktetoVars[i] \notin prEnv) =>
        /\ prDispatched = 0
        /\ prUrls = <<>>
        /\ prPc \in {"prerun", "init", "returned"}
        /\ prPc = "returned" => prErr # NoErr
        /\ prInits # <<>> => (prPc = "returned" /\ prInits[Len(prInits)] # NoErr)

\* OKTETO_TOKEN alone is unset: Init has failed on it and the command has
\* returned the error without handing the declared services to g.Go.
C37_Witness ==
    /\ prEnv = {"OKTETO_REGISTRY_URL", "OKTETO_NAMESPACE", "OKTETO_USERNAME"}
    /\ prServices = MaxGo
    /\ prPc = "returned"
    /\ Len(prInits) = 1
    /\ prInits[1] = [kind |-> "fatal",
                     msg |-> <<"Failed getting Okteto's registry", "OKTETO_TOKEN">>]
    /\ prErr # NoErr
    /\ prReg = {"registryUrl", "namespace", "username"}
    /\ prDispatched = 0

====
